---- MODULE Spec2Model ----
(***************************************************************************)
(* Bootstrap of the SQL backend in pkg/drivers/mssql/mssql.go: New,        *)
(* prepareDSN, createDBIfNotExist, setup, and the dialect's CompactSQL     *)
(* statement.  Several processes run New against one database server; the  *)
(* server executes one statement at a time.  The SQL statements are        *)
(* modelled by what their text says (CREATE ... IF NOT EXISTS is a no-op   *)
(* on an existing object, a plain CREATE INDEX fails on an existing one).  *)
(* Spec runs the processes concurrently, SpecSeq one after the other with  *)
(* the engine writing in between, SpecCalls applies prepareDSN and         *)
(* dialect.TranslateErr to every input, SpecCompact runs CompactSQL.       *)
(***************************************************************************)
EXTENDS Integers, Sequences, FiniteSets, TLC

\* ---- bounds -------------------------------------------------------------
NumProcs == 2
MaxFaults == 1
MaxRows == 3

Procs == 1..NumProcs

\* ---- errors -------------------------------------------------------------
nil == "nil"
ErrUnknownDB == "ServerError: unknown database"
ErrSyntax == "ServerError: syntax error"
ErrExists == "ServerError: already exists"
ErrNoTable == "ServerError: no such table"
ErrDenied == "ServerError: permission denied"
ErrNet == "net: connection refused"
ErrTLS == "tls: bad certificate"
ErrParse == "msdsn: malformed connection string"

ServerErrors == {ErrUnknownDB, ErrSyntax, ErrExists, ErrNoTable, ErrDenied}

\* Failures the environment can inject into any statement sent to the server:
\* one that the driver reports as a server error, one that it does not.
FaultErrs == {ErrDenied, ErrNet}

\* a type assertion that matches every error
IsServerError_any(err) == err # nil

\* the type assertion  err.(*mssql.ServerError)
IsServerError(err) == err \in ServerErrors

\* ---- connection strings -------------------------------------------------
\* A connection string is modelled by the fields msdsn.Parse reads from it.
EmptyDSN == [form |-> "empty", db |-> "", tls |-> ""]
BadDSN == [form |-> "malformed", db |-> "", tls |-> ""]
UrlDSN(db, tls) == [form |-> "url", db |-> db, tls |-> tls]

defaultDB == "kubernetes"
OtherDB == "k3s"
DBNames == {defaultDB, OtherDB}

DSNs == {EmptyDSN, BadDSN, UrlDSN("", ""), UrlDSN(OtherDB, "")}

\* msdsn.Parse: the configuration and the error
Parse(s) ==
    IF s.form = "malformed"
    THEN [config |-> [db |-> "", tls |-> ""], err |-> ErrParse]
    ELSE [config |-> [db |-> s.db, tls |-> s.tls], err |-> nil]

\* a serialisation that leaves the database out
URLString_noDatabase(config) == UrlDSN("", config.tls)

\* config.URL().String()
URLString(config) == UrlDSN(config.db, config.tls)

\* a normalizer that puts the default name over the one given
prepareDSN_alwaysDefault(dataSourceName, tlsCfg) ==
    IF dataSourceName.form = "empty"
    THEN [dsn |-> EmptyDSN, err |-> nil]
    ELSE LET p == Parse(dataSourceName) IN
         IF p.err # nil
         THEN [dsn |-> EmptyDSN, err |-> p.err]
         ELSE [dsn |-> URLString([p.config EXCEPT !.db = defaultDB]), err |-> nil]

\* prepareDSN(dataSourceName, tlsConfig): the TLS registration is commented
\* out in the source, so tlsConfig is not read.
prepareDSN(dataSourceName, tlsCfg) ==
    IF dataSourceName.form = "empty"
    THEN [dsn |-> EmptyDSN, err |-> nil]
    ELSE LET p == Parse(dataSourceName) IN
         IF p.err # nil
         THEN [dsn |-> EmptyDSN, err |-> p.err]
         ELSE LET dbName == IF p.config.db # "" THEN p.config.db ELSE defaultDB
              IN [dsn |-> URLString([p.config EXCEPT !.db = dbName]), err |-> nil]

\* ---- SQL text -----------------------------------------------------------
\* the create statement without its IF NOT EXISTS
createDB_unconditional == [op |-> "CREATE DATABASE", ifNotExists |-> FALSE]

\* createDB = "CREATE DATABASE IF NOT EXISTS "
createDB == [op |-> "CREATE DATABASE", ifNotExists |-> TRUE]

schema ==
    << [kind |-> "table", name |-> "kine", on |-> "", ifNotExists |-> TRUE],
       [kind |-> "index", name |-> "kine_name_index", on |-> "kine", ifNotExists |-> FALSE],
       [kind |-> "index", name |-> "kine_name_id_index", on |-> "kine", ifNotExists |-> FALSE],
       [kind |-> "index", name |-> "kine_id_deleted_index", on |-> "kine", ifNotExists |-> FALSE],
       [kind |-> "index", name |-> "kine_prev_revision_index", on |-> "kine", ifNotExists |-> FALSE],
       [kind |-> "uindex", name |-> "kine_name_prev_revision_uindex", on |-> "kine", ifNotExists |-> FALSE] >>

ObjNames == {schema[k].name : k \in 1..Len(schema)}
EmptyCatalog == [o \in ObjNames |-> 0]
FullCatalog == [o \in ObjNames |-> 1]

\* ---- the compaction statement ------------------------------------------------
\* Rows carry the columns CompactSQL reads: id, name, deleted, prev_revision.
compact_rev_key == "compact_rev_key"

\* the first branch without its exclusion of the reserved key
SupersededIds_anyName(R, arg1) ==
    { kp.prev_revision : kp \in { k \in R : k.prev_revision # 0 /\ k.id <= arg1 } }

\* first branch of the UNION: SELECT kp.prev_revision AS id FROM kine AS kp WHERE ...
SupersededIds(R, arg1) ==
    { kp.prev_revision : kp \in
        { k \in R : k.name # compact_rev_key /\ k.prev_revision # 0 /\ k.id <= arg1 } }

\* the second branch without its cutoff
DeletedIds_noCutoff(R, arg2) == { kd.id : kd \in { k \in R : k.deleted # 0 } }

\* second branch: SELECT kd.id AS id FROM kine AS kd WHERE ...
DeletedIds(R, arg2) == { kd.id : kd \in { k \in R : k.deleted # 0 /\ k.id <= arg2 } }

\* dialect.CompactSQL with its two placeholders: the rows kv that the
\* DELETE ... INNER JOIN ... ON kv.id = ks.id removes from R
CompactSQL(R, arg1, arg2) ==
    LET ks == SupersededIds(R, arg1) \cup DeletedIds(R, arg2)
    IN { kv \in R : \E i \in ks : kv.id = i }

\* ---- the server ---------------------------------------------------------
\* db.Exec(createDB + dbName) on a connection opened for database connDB
\* ("" = no database).  D is the set of databases that exist.
ExecCreateDB(stmt, dbName, connDB, fault, D) ==
    IF fault # nil THEN [err |-> fault, dbs |-> D]
    ELSE IF connDB # "" /\ connDB \notin D THEN [err |-> ErrUnknownDB, dbs |-> D]
    ELSE IF dbName = "" THEN [err |-> ErrSyntax, dbs |-> D]
    ELSE IF dbName \in D
         THEN [err |-> IF stmt.ifNotExists THEN nil ELSE ErrExists, dbs |-> D]
    ELSE [err |-> nil, dbs |-> D \cup {dbName}]

\* db.Exec(stmt) for a schema statement, on the catalog cat of one database.
ExecSchema(stmt, fault, cat) ==
    IF fault # nil THEN [err |-> fault, cat |-> cat]
    ELSE IF stmt.kind # "table" /\ cat[stmt.on] = 0 THEN [err |-> ErrNoTable, cat |-> cat]
    ELSE IF cat[stmt.name] > 0
         THEN [err |-> IF stmt.ifNotExists THEN nil ELSE ErrExists, cat |-> cat]
    ELSE [err |-> nil, cat |-> [cat EXCEPT ![stmt.name] = 1]]

\* a schema statement that empties the table it names
RowsAfter_recreate(stmt, err, rows) == IF stmt.kind = "table" THEN {} ELSE rows

\* The rows of kine after db.Exec(stmt) answered err: CREATE TABLE IF NOT
\* EXISTS and CREATE INDEX neither add nor remove rows.
RowsAfter(stmt, err, rows) == rows

\* sql.Open(azuread.DriverName, target): a handle on the target's database,
\* open until db.Close() is called on it
SqlOpen(target) == [db |-> target.db, closed |-> FALSE]

\* ---- the dialect's callbacks ---------------------------------------------------
ErrKeyExists == "server.ErrKeyExists"

\* every error value a caller can hand to TranslateErr, nil included
Errs == ServerErrors \cup {ErrNet, ErrTLS, ErrParse, ErrKeyExists, nil}

\* a translator that recognises only the duplicate-key error
TranslateErr_onlyExists(err) == IF err = ErrExists THEN ErrKeyExists ELSE err

\* dialect.TranslateErr
TranslateErr(err) == IF IsServerError(err) THEN ErrKeyExists ELSE err

\* ---- control decisions of the code -----------------------------------------
\* New: every stage's  if err != nil { return nil, err }
AfterTLS(err) == IF err # nil THEN "return" ELSE "continue"
AfterPrepare(err) == IF err # nil THEN "return" ELSE "continue"

\* New going on after createDBIfNotExist failed
AfterEnsure_ignore(err) == "continue"

AfterEnsure(err) == IF err # nil THEN "return" ELSE "continue"
AfterOpen(err) == IF err # nil THEN "return" ELSE "continue"
AfterSetup(err) == IF err # nil THEN "return" ELSE "continue"

\* createDBIfNotExist falling back after any failure of the first create
AfterFirstCreate_always(err) == IF err = nil THEN "ok" ELSE "fallback"

\* createDBIfNotExist after the first Exec
AfterFirstCreate(err) ==
    IF err = nil THEN "ok"
    ELSE IF ~IsServerError(err) THEN "return"
    ELSE "fallback"

\* createDBIfNotExist dropping the error of the second create
AfterSecondCreate_swallow(err) == "ok"

\* createDBIfNotExist after the second Exec
AfterSecondCreate(err) == IF err # nil THEN "return" ELSE "ok"

\* setup going on after every failure
AfterStmt_ignoreAll(err) == "next"

\* setup returning every error, "already exists" included
AfterStmt_strict(err) == IF err # nil THEN "return" ELSE "next"

\* setup after one statement's Exec
AfterStmt(err) ==
    IF err # nil /\ ~IsServerError(err) THEN "return" ELSE "next"

VARIABLES
    dbs,        \* databases that exist on the server
    catalog,    \* per database: how many objects of each schema name exist
    pc,         \* per process: where New is
    dsn,        \* New's dataSourceName argument: the deployment's connection string
    tlsInfo,    \* New's tlsInfo argument: what tlsInfo.ClientConfig() yields
    tlsConfig,  \* per process: the *tls.Config New got ("nil" if none)
    parsedDSN,  \* per process: prepareDSN's result
    stmtNo,     \* per process: index of the next schema statement of setup
    ensureErr,  \* per process: what createDBIfNotExist returned ("pending" before)
    openErr,    \* per process: what generic.Open returned ("pending" before)
    ret,        \* per process: what New returned
    attempts,   \* per process: the creates createDBIfNotExist issued
    stages,     \* per process: the stages New has run, in order
    lastErr,    \* per process: the result of the latest schema statement of setup
    faulted,    \* per process: an injected failure hit one of its statements
    faults,     \* number of failures injected so far
    kine,       \* the rows of table kine in the target database
    autoInc,    \* the next value of the AUTO_INCREMENT column id
    before,     \* the rows of kine when CompactSQL was last executed
    cutoff,     \* the value bound to both placeholders in that execution
    removed,    \* the rows that execution deleted
    issued,     \* per process: the indexes of the schema statements setup sent
    handles,    \* per process: the *sql.DB handles createDBIfNotExist opened
    calls       \* the calls of prepareDSN and dialect.TranslateErr made so far

bvars == << dbs, catalog, pc, dsn, tlsInfo, tlsConfig, parsedDSN, stmtNo, ensureErr, openErr,
            ret, attempts, stages, lastErr, faulted, faults >>
cvars == << kine, autoInc, before, cutoff, removed >>
hvars == << issued, handles, calls >>
vars == << bvars, cvars, hvars >>

\* tlsInfo.ClientConfig(): no configuration, a configuration, or an error
TLSInfos == {"nil", "config", "error"}

\* the stages of New, in the order of its code
StageOrder ==
    << "tls", "normalize", "ensure", "open", "configure", "setup", "migrate", "compose" >>

NoRet == [backend |-> FALSE, err |-> "pending"]

\* the *tls.Config values New hands to prepareDSN: none, or the loaded one
\* with its minimum version raised
TLSConfigs == {"nil", "config,MinVersion=TLS11"}

NoCalls == [prepareDSN |-> {}, TranslateErr |-> {}]

Init ==
    /\ dbs = {}
    /\ catalog = [d \in DBNames |-> EmptyCatalog]
    /\ pc = [p \in Procs |-> "start"]
    /\ dsn \in DSNs
    /\ tlsInfo \in TLSInfos
    /\ tlsConfig = [p \in Procs |-> "nil"]
    /\ parsedDSN = [p \in Procs |-> EmptyDSN]
    /\ stmtNo = [p \in Procs |-> 1]
    /\ ensureErr = [p \in Procs |-> "pending"]
    /\ openErr = [p \in Procs |-> "pending"]
    /\ ret = [p \in Procs |-> NoRet]
    /\ attempts = [p \in Procs |-> << >>]
    /\ stages = [p \in Procs |-> << >>]
    /\ lastErr = [p \in Procs |-> "none"]
    /\ faulted = [p \in Procs |-> FALSE]
    /\ faults = 0
    /\ kine = {}
    /\ autoInc = 1
    /\ before = {}
    /\ cutoff = 0
    /\ removed = {}
    /\ issued = [p \in Procs |-> << >>]
    /\ handles = [p \in Procs |-> << >>]
    /\ calls = NoCalls

Faults == {nil} \cup (IF faults < MaxFaults THEN FaultErrs ELSE {})

Hit(p, fault) ==
    /\ faults' = IF fault # nil THEN faults + 1 ELSE faults
    /\ faulted' = IF fault # nil THEN [faulted EXCEPT ![p] = TRUE] ELSE faulted

Return(p, backend, err) ==
    /\ pc' = [pc EXCEPT ![p] = "done"]
    /\ ret' = [ret EXCEPT ![p] = [backend |-> backend, err |-> err]]

\* New, lines 53-65: load the TLS configuration, raise its minimum version,
\* normalize the connection string.
NewBegin(p) ==
    /\ pc[p] = "start"
    /\ LET tlsErr == IF tlsInfo = "error" THEN ErrTLS ELSE nil
           cfg == IF tlsInfo = "config" THEN "config,MinVersion=TLS11" ELSE "nil"
           prep == prepareDSN(dsn, cfg)
       IN IF AfterTLS(tlsErr) = "return"
          THEN /\ Return(p, FALSE, tlsErr)
               /\ stages' = [stages EXCEPT ![p] = << "tls" >>]
               /\ UNCHANGED << tlsConfig, parsedDSN >>
          ELSE /\ tlsConfig' = [tlsConfig EXCEPT ![p] = cfg]
               /\ stages' = [stages EXCEPT ![p] = << "tls", "normalize" >>]
               /\ IF AfterPrepare(prep.err) = "return"
                  THEN /\ Return(p, FALSE, prep.err)
                       /\ UNCHANGED parsedDSN
                  ELSE /\ parsedDSN' = [parsedDSN EXCEPT ![p] = prep.dsn]
                       /\ pc' = [pc EXCEPT ![p] = "createDB1"]
                       /\ UNCHANGED ret
    /\ UNCHANGED << dbs, catalog, dsn, tlsInfo, stmtNo, ensureErr, attempts, lastErr,
                    faulted, faults >>
    /\ UNCHANGED << openErr, cvars, hvars >>

\* createDBIfNotExist returns err to New (line 67)
EnsureReturns(p, err) ==
    /\ ensureErr' = [ensureErr EXCEPT ![p] = err]
    /\ IF AfterEnsure(err) = "return"
       THEN Return(p, FALSE, err)
       ELSE /\ pc' = [pc EXCEPT ![p] = "open"]
            /\ UNCHANGED ret

\* createDBIfNotExist, lines 139-154: parse, open with the target as given,
\* issue the create.
CreateDBFirst(p) ==
    /\ pc[p] = "createDB1"
    /\ stages' = [stages EXCEPT ![p] = Append(@, "ensure")]
    /\ LET parsed == Parse(parsedDSN[p])
           dbName == parsed.config.db
       IN IF parsed.err # nil
          THEN /\ EnsureReturns(p, parsed.err)
               /\ UNCHANGED << dbs, attempts, faulted, faults, handles >>
          ELSE \E fault \in Faults :
                 LET r == ExecCreateDB(createDB, dbName, parsedDSN[p].db, fault, dbs)
                 IN /\ Hit(p, fault)
                    /\ handles' = [handles EXCEPT ![p] = Append(@, SqlOpen(parsedDSN[p]))]
                    /\ dbs' = r.dbs
                    /\ attempts' = [attempts EXCEPT ![p] =
                          Append(@, [conn |-> parsedDSN[p].db, name |-> dbName, err |-> r.err])]
                    /\ CASE AfterFirstCreate(r.err) = "ok" -> EnsureReturns(p, nil)
                         [] AfterFirstCreate(r.err) = "return" -> EnsureReturns(p, r.err)
                         [] AfterFirstCreate(r.err) = "fallback" ->
                                /\ pc' = [pc EXCEPT ![p] = "createDB2"]
                                /\ UNCHANGED << ret, ensureErr >>
    /\ UNCHANGED << catalog, dsn, tlsInfo, tlsConfig, parsedDSN, stmtNo, lastErr >>
    /\ UNCHANGED << openErr, cvars, issued, calls >>

\* createDBIfNotExist, lines 154-164: open without a database, issue the
\* create again.
CreateDBFallback(p) ==
    /\ pc[p] = "createDB2"
    /\ LET config == [Parse(parsedDSN[p]).config EXCEPT !.db = ""]
           dbName == Parse(parsedDSN[p]).config.db
           target == URLString(config)
       IN \E fault \in Faults :
            LET r == ExecCreateDB(createDB, dbName, target.db, fault, dbs)
            IN /\ Hit(p, fault)
               /\ handles' = [handles EXCEPT ![p] = Append(@, SqlOpen(target))]
               /\ dbs' = r.dbs
               /\ attempts' = [attempts EXCEPT ![p] =
                     Append(@, [conn |-> target.db, name |-> dbName, err |-> r.err])]
               /\ IF AfterSecondCreate(r.err) = "ok"
                  THEN EnsureReturns(p, nil)
                  ELSE EnsureReturns(p, r.err)
    /\ UNCHANGED << catalog, dsn, tlsInfo, tlsConfig, parsedDSN, stmtNo, stages, lastErr >>
    /\ UNCHANGED << openErr, cvars, issued, calls >>

\* New, lines 71-112: generic.Open on the normalized target, then the
\* dialect's fields are set.
Open(p) ==
    /\ pc[p] = "open"
    /\ \E fault \in Faults :
         LET err == IF fault # nil THEN fault
                    ELSE IF parsedDSN[p].db \notin dbs THEN ErrUnknownDB
                    ELSE nil
         IN /\ Hit(p, fault)
            /\ openErr' = [openErr EXCEPT ![p] = err]
            /\ IF AfterOpen(err) = "return"
               THEN /\ Return(p, FALSE, err)
                    /\ stages' = [stages EXCEPT ![p] = Append(@, "open")]
               ELSE /\ pc' = [pc EXCEPT ![p] = "setup"]
                    /\ stages' = [stages EXCEPT ![p] = @ \o << "open", "configure" >>]
                    /\ UNCHANGED ret
    /\ UNCHANGED << dbs, catalog, dsn, tlsInfo, tlsConfig, parsedDSN, stmtNo, ensureErr,
                    attempts, lastErr >>
    /\ UNCHANGED << cvars, hvars >>

\* setup returns err to New (line 113); New, lines 113-118: on success
\* migrate and compose.  st: the stages run so far.
SetupReturns(p, err, st) ==
    IF AfterSetup(err) = "return"
    THEN /\ Return(p, FALSE, err)
         /\ stages' = [stages EXCEPT ![p] = st]
    ELSE /\ Return(p, TRUE, nil)
         /\ stages' = [stages EXCEPT ![p] = st \o << "migrate", "compose" >>]

\* setup, lines 124-132: one schema statement
SetupStmt(p) ==
    /\ pc[p] = "setup"
    /\ stmtNo[p] <= Len(schema)
    /\ \E fault \in Faults :
         LET db == parsedDSN[p].db
             r == ExecSchema(schema[stmtNo[p]], fault, catalog[db])
             st == IF stmtNo[p] = 1 THEN Append(stages[p], "setup") ELSE stages[p]
         IN /\ Hit(p, fault)
            /\ issued' = [issued EXCEPT ![p] = Append(@, stmtNo[p])]
            /\ catalog' = [catalog EXCEPT ![db] = r.cat]
            /\ kine' = RowsAfter(schema[stmtNo[p]], r.err, kine)
            /\ lastErr' = [lastErr EXCEPT ![p] = r.err]
            /\ IF AfterStmt(r.err) = "return"
               THEN /\ SetupReturns(p, r.err, st)
                    /\ UNCHANGED stmtNo
               ELSE /\ stmtNo' = [stmtNo EXCEPT ![p] = @ + 1]
                    /\ stages' = [stages EXCEPT ![p] = st]
                    /\ UNCHANGED << pc, ret >>
    /\ UNCHANGED << dbs, dsn, tlsInfo, tlsConfig, parsedDSN, ensureErr, attempts >>
    /\ UNCHANGED << openErr, autoInc, before, cutoff, removed, handles, calls >>

\* setup, lines 134-135: every statement issued, setup returns nil
NewFinish(p) ==
    /\ pc[p] = "setup"
    /\ stmtNo[p] > Len(schema)
    /\ SetupReturns(p, nil, stages[p])
    /\ UNCHANGED << dbs, catalog, dsn, tlsInfo, tlsConfig, parsedDSN, stmtNo, ensureErr,
                    attempts, lastErr, faulted, faults >>
    /\ UNCHANGED << openErr, cvars, hvars >>

\* A caller applies prepareDSN to a connection string and a TLS configuration.
CallPrepareDSN ==
    /\ \E d \in DSNs, t \in TLSConfigs :
         LET c == [in |-> d, tls |-> t, out |-> prepareDSN(d, t)]
         IN /\ c \notin calls.prepareDSN
            /\ calls' = [calls EXCEPT !.prepareDSN = @ \cup {c}]
    /\ UNCHANGED << bvars, cvars, issued, handles >>

\* The engine applies dialect.TranslateErr to an error value.
CallTranslateErr ==
    /\ \E e \in Errs :
         LET c == [in |-> e, out |-> TranslateErr(e)]
         IN /\ c \notin calls.TranslateErr
            /\ calls' = [calls EXCEPT !.TranslateErr = @ \cup {c}]
    /\ UNCHANGED << bvars, cvars, issued, handles >>

\* ---- the table after bootstrap ---------------------------------------------
Names == {compact_rev_key, "a", "b"}
Flags == {0, 1}

\* the unique index kine_name_prev_revision_uindex
UniqueOK(R, row) ==
    \A k \in R : ~(k.name = row.name /\ k.prev_revision = row.prev_revision)

\* The engine appends a revision; id is assigned by AUTO_INCREMENT.  A row's
\* prev_revision is 0 or the id of an earlier revision; the reserved key's
\* prev_revision is a counter of its own and may hold any revision.
InsertRow ==
    /\ autoInc <= MaxRows
    /\ \E n \in Names, d \in Flags, pr \in 0..MaxRows :
         LET row == [id |-> autoInc, name |-> n, deleted |-> d, prev_revision |-> pr]
         IN /\ n # compact_rev_key => pr < autoInc
            /\ UniqueOK(kine, row)
            /\ kine' = kine \cup {row}
    /\ autoInc' = autoInc + 1
    /\ UNCHANGED << before, cutoff, removed, bvars, hvars >>

\* The engine executes CompactSQL with both placeholders bound to c.
Compact ==
    /\ \E c \in 0..MaxRows :
         /\ before' = kine
         /\ cutoff' = c
         /\ removed' = CompactSQL(kine, c, c)
         /\ kine' = kine \ CompactSQL(kine, c, c)
    /\ UNCHANGED << autoInc, bvars, hvars >>

\* The state successful bootstraps leave, run one after the other on the default
\* target: database and schema present, table kine empty.
InitCompact ==
    /\ dbs = {defaultDB}
    /\ catalog = [d \in DBNames |-> IF d = defaultDB THEN FullCatalog ELSE EmptyCatalog]
    /\ pc = [p \in Procs |-> "done"]
    /\ dsn = UrlDSN("", "")
    /\ tlsInfo = "nil"
    /\ tlsConfig = [p \in Procs |-> "nil"]
    /\ parsedDSN = [p \in Procs |-> UrlDSN(defaultDB, "")]
    /\ stmtNo = [p \in Procs |-> Len(schema) + 1]
    /\ ensureErr = [p \in Procs |-> nil]
    /\ openErr = [p \in Procs |-> nil]
    /\ ret = [p \in Procs |-> [backend |-> TRUE, err |-> nil]]
    /\ attempts = [p \in Procs |->
          IF p = 1
          THEN << [conn |-> defaultDB, name |-> defaultDB, err |-> ErrUnknownDB],
                  [conn |-> "", name |-> defaultDB, err |-> nil] >>
          ELSE << [conn |-> defaultDB, name |-> defaultDB, err |-> nil] >>]
    /\ stages = [p \in Procs |-> StageOrder]
    /\ lastErr = [p \in Procs |-> IF p = 1 THEN nil ELSE ErrExists]
    /\ faulted = [p \in Procs |-> FALSE]
    /\ faults = 0
    /\ kine = {}
    /\ autoInc = 1
    /\ before = {}
    /\ cutoff = 0
    /\ removed = {}
    /\ issued = [p \in Procs |-> [k \in 1..Len(schema) |-> k]]
    /\ handles = [p \in Procs |->
          IF p = 1
          THEN << [db |-> defaultDB, closed |-> FALSE], [db |-> "", closed |-> FALSE] >>
          ELSE << [db |-> defaultDB, closed |-> FALSE] >>]
    /\ calls = NoCalls

NextCompact == InsertRow \/ Compact

SpecCompact == InitCompact /\ [][NextCompact]_vars

Next ==
    \E p \in Procs :
        \/ NewBegin(p)
        \/ CreateDBFirst(p)
        \/ CreateDBFallback(p)
        \/ Open(p)
        \/ SetupStmt(p)
        \/ NewFinish(p)

Spec == Init /\ [][Next]_vars

\* The two pure functions, applied to every input in any order; New has not
\* been called.
InitCalls == Init /\ dsn = EmptyDSN /\ tlsInfo = "nil"

NextCalls == CallPrepareDSN \/ CallTranslateErr

SpecCalls == InitCalls /\ [][NextCalls]_vars

\* Instances started one after the other: New begins in process p once every
\* process before it has returned.  Between two runs the engine of a
\* returned backend writes the first row of kine.
Idle == \A p \in Procs : pc[p] \in {"start", "done"}

NextSeq ==
    \/ \E p \in Procs :
          /\ \A q \in 1..(p - 1) : pc[q] = "done"
          /\ \/ NewBegin(p)
             \/ CreateDBFirst(p)
             \/ CreateDBFallback(p)
             \/ Open(p)
             \/ SetupStmt(p)
             \/ NewFinish(p)
    \/ /\ Idle
       /\ \E p \in Procs : ret[p].backend
       /\ kine = {}
       /\ InsertRow

SpecSeq == Init /\ [][NextSeq]_vars

\* ---- properties -------------------------------------------------------------
TargetDB(p) == Parse(parsedDSN[p]).config.db
Returned(p) == pc[p] = "done"
IsErr(e) == e \notin {nil, "pending", "none"}
Last(q) == q[Len(q)]

\* C1: whenever createDBIfNotExist has returned without error for a target
\* naming database D, D exists on the server (first attempt and fallback alike).
C1_EnsuredDatabaseExists ==
    \A p \in Procs : ensureErr[p] = nil => (TargetDB(p) # "" /\ TargetDB(p) \in dbs)

\* one call returned nil from its first attempt, another from its fallback
C1_Witness ==
    \E p, q \in Procs :
        /\ ensureErr[p] = nil /\ Len(attempts[p]) = 1
        /\ ensureErr[q] = nil /\ Len(attempts[q]) = 2

\* C2: in setup an "already exists" server error is swallowed and the next
\* statement follows; any other server error ends setup and is what New returns.
C2_OtherServerErrorAborts ==
    \A p \in Procs :
        /\ lastErr[p] = ErrExists => ~IsErr(ret[p].err)
        /\ (IsServerError(lastErr[p]) /\ lastErr[p] # ErrExists)
              => (Returned(p) /\ ret[p].err = lastErr[p])

\* C3: whenever New has returned a backend, the target database, table kine,
\* its four indexes and the unique index are all present.
C3_BackendImpliesSchema ==
    \A p \in Procs :
        ret[p].backend => (TargetDB(p) \in dbs /\ catalog[TargetDB(p)] = FullCatalog)

\* C4: a call of createDBIfNotExist for a named database returns an error only
\* when a failure was injected into one of its own statements, and that failure
\* is the error it returns; racing calls never make it fail.
C4_NoErrorFromRace ==
    \A p \in Procs :
        (IsErr(ensureErr[p]) /\ TargetDB(p) # "")
            => (faulted[p] /\ ensureErr[p] \in FaultErrs)

\* two calls both found the database missing, both fell back, both returned nil
C4_Witness ==
    \E p, q \in Procs :
        /\ p # q
        /\ ~faulted[p] /\ ~faulted[q]
        /\ Len(attempts[p]) = 2 /\ Len(attempts[q]) = 2
        /\ ensureErr[p] = nil /\ ensureErr[q] = nil

\* C5: a bootstrap that meets no injected failure returns a backend, whatever
\* the other bootstraps do meanwhile, and leaves table kine and the five
\* indexes each exactly once.
C5_ConcurrentBootstrap ==
    \A p \in Procs :
        (Returned(p) /\ ~faulted[p] /\ dsn.form = "url" /\ tlsInfo # "error")
            => /\ ret[p] = [backend |-> TRUE, err |-> nil]
               /\ catalog[TargetDB(p)] = FullCatalog

\* p created the database through its fallback before q's first create, and q
\* created the last index before p's last statement: the two overlapped, and
\* both returned a backend
C5_Witness ==
    \E p, q \in Procs :
        /\ p # q
        /\ ret[p].backend /\ ret[q].backend
        /\ ~faulted[p] /\ ~faulted[q]
        /\ Len(attempts[p]) = 2 /\ Len(attempts[q]) = 1
        /\ lastErr[p] = ErrExists /\ lastErr[q] = nil

\* C6 as stated: the rows deleted are the rows r with r.id <= C that are marked
\* deleted or whose id is the prev_revision of another row not named
\* compact_rev_key.
C6_AsStated ==
    removed = { r \in before :
                  /\ r.id <= cutoff
                  /\ \/ r.deleted # 0
                     \/ \E k \in before \ {r} :
                           k.name # compact_rev_key /\ k.prev_revision = r.id }

\* C6 amended: the rows deleted are the rows r with r.id <= C that are marked
\* deleted or whose id is the prev_revision of another row that itself has
\* id <= C and is not named compact_rev_key.
C6_DeletedRows ==
    /\ removed = { r \in before :
                     /\ r.id <= cutoff
                     /\ \/ r.deleted # 0
                        \/ \E k \in before \ {r} :
                              /\ k.name # compact_rev_key
                              /\ k.id <= cutoff
                              /\ k.prev_revision = r.id }
    /\ kine \cap removed = {}
    /\ before \ removed \subseteq kine

\* one execution deleted a row only because it is superseded and another only
\* because it is marked deleted (its one successor lies above the cutoff)
C6_Witness ==
    \E r1, r2 \in removed :
        /\ r1.deleted = 0
        /\ r2.deleted # 0
        /\ \E k \in before : k.prev_revision = r2.id
        /\ \A k \in before : k.prev_revision = r2.id => k.id > cutoff

\* C7: no row with id greater than C is deleted, whatever its deleted flag and
\* whichever rows point to it through prev_revision.
C7_NothingAboveCutoff == \A r \in removed : r.id <= cutoff

\* an execution deleted a row at or below the cutoff and kept a row above it
\* that is marked deleted and that the reserved key, at or below the cutoff,
\* points to
C7_Witness ==
    /\ removed # {}
    /\ \E r \in before \cap kine, k \in before :
          /\ r.id > cutoff /\ r.deleted # 0
          /\ k.name = compact_rev_key /\ k.prev_revision = r.id /\ k.id <= cutoff

\* C8: createDBIfNotExist issues the create at most twice: first on a
\* connection for database D; a second time only after a server error, on a
\* connection without database, for the same name; the second result is what
\* it returns.
C8_AtMostTwoCreates ==
    \A p \in Procs :
        LET a == attempts[p] IN
        /\ Len(a) <= 2
        /\ Len(a) >= 1 => (a[1].conn = parsedDSN[p].db /\ a[1].name = parsedDSN[p].db)
        /\ pc[p] = "createDB2" => (Len(a) = 1 /\ ensureErr[p] = "pending")
        /\ Len(a) = 1 /\ pc[p] # "createDB2" => ensureErr[p] = a[1].err
        /\ Len(a) = 2 => /\ IsServerError(a[1].err)
                         /\ a[2].conn = ""
                         /\ a[2].name = a[1].name
                         /\ ensureErr[p] = a[2].err
                         /\ pc[p] # "createDB2"
                         /\ IsErr(a[2].err) => (Returned(p) /\ ret[p].err = a[2].err)

\* a call whose second create failed, and which returned that failure
C8_Witness ==
    \E p \in Procs :
        /\ Len(attempts[p]) = 2
        /\ IsErr(attempts[p][2].err)
        /\ Returned(p)

\* C9: when the first create fails with an error that is no server error,
\* createDBIfNotExist returns that error and issues no second create.
C9_NonServerErrorPropagates ==
    \A p \in Procs :
        (Len(attempts[p]) >= 1 /\ IsErr(attempts[p][1].err)
            /\ attempts[p][1].err \notin ServerErrors)
          => /\ Len(attempts[p]) = 1
             /\ pc[p] # "createDB2"
             /\ ensureErr[p] = attempts[p][1].err

\* a call whose first create met a network failure
C9_Witness ==
    \E p \in Procs : Len(attempts[p]) = 1 /\ attempts[p][1].err = ErrNet /\ Returned(p)

\* C10: New runs its stages in the fixed order; an error of TLS loading,
\* normalization, existence-ensuring, the open or schema provisioning is what
\* New returns, with no backend and no later stage run.
C10_StagesInOrder ==
    \A p \in Procs :
        LET s == stages[p] IN
        /\ Len(s) <= Len(StageOrder)
        /\ \A k \in 1..Len(s) : s[k] = StageOrder[k]
        /\ ret[p].backend => (s = StageOrder /\ ret[p].err = nil)
        /\ IsErr(ensureErr[p]) => (Returned(p) /\ ret[p].err = ensureErr[p] /\ Last(s) = "ensure")
        /\ IsErr(openErr[p]) => (Returned(p) /\ ret[p].err = openErr[p] /\ Last(s) = "open")
        /\ (IsErr(lastErr[p]) /\ ~IsServerError(lastErr[p]))
              => (Returned(p) /\ ret[p].err = lastErr[p] /\ Last(s) = "setup")
        /\ IsErr(ret[p].err) =>
              /\ ~ret[p].backend
              /\ Returned(p)
              /\ CASE Last(s) = "tls" -> ret[p].err = ErrTLS
                   [] Last(s) = "normalize" -> ret[p].err = ErrParse
                   [] Last(s) = "ensure" -> ret[p].err = ensureErr[p]
                   [] Last(s) = "open" -> ret[p].err = openErr[p]
                   [] Last(s) = "setup" -> ret[p].err = lastErr[p]
                   [] OTHER -> FALSE

\* one call ran every stage and returned a backend, another stopped in schema
\* provisioning
C10_Witness ==
    \E p, q \in Procs :
        /\ ret[p].backend /\ stages[p] = StageOrder
        /\ IsErr(ret[q].err) /\ Last(stages[q]) = "setup"


\* stage st is among the stages process p has run
HasRun(p, st) == \E i \in 1..Len(stages[p]) : stages[p][i] = st

\* C11: createDBIfNotExist is idempotent.  Once one invocation has returned
\* without error, an invocation made after it on the same target returns no
\* error unless a failure is injected into it, and the set of databases is, at
\* every later moment and so after the second invocation too, the set the
\* first one left: the target's database alone.
C11_EnsureTwice ==
    \A p \in Procs :
        ensureErr[p] = nil =>
            /\ dbs = {TargetDB(p)}
            /\ \A q \in Procs :
                   (p < q /\ ~faulted[q]) => ensureErr[q] \in {"pending", nil}

\* the second invocation in a row has returned, its one create a no-op
C11_Witness ==
    /\ ensureErr[1] = nil
    /\ ensureErr[2] = nil
    /\ ~faulted[2]
    /\ Len(attempts[2]) = 1
    /\ Len(attempts[1]) = 2
    /\ dbs = {TargetDB(2)}

\* C12: setup is idempotent.  With no failure injected, every run of setup in
\* a row of runs on one database returns nil (New goes on to return a backend),
\* and from the return of the first run on the schema stays the same: every
\* object of it present exactly once.
C12_SetupTwice ==
    faults = 0 =>
        \A p \in Procs :
            /\ (Returned(p) /\ HasRun(p, "setup")) => ret[p].backend
            /\ ret[p].backend => catalog[TargetDB(p)] = FullCatalog

\* the second run has returned after meeting objects that exist
C12_Witness ==
    /\ faults = 0
    /\ ret[1].backend /\ ret[2].backend
    /\ lastErr[1] = nil
    /\ lastErr[2] = ErrExists
    /\ Len(issued[2]) = Len(schema)
    /\ catalog[TargetDB(2)] = FullCatalog

\* C13: for every well-formed connection string prepareDSN returns, without
\* error, a target whose database is 'kubernetes' when the string names none
\* and the named database, unchanged, when it names one.
C13_DefaultDatabase ==
    \A c \in calls.prepareDSN :
        c.in.form = "url" =>
            /\ c.out.err = nil
            /\ Parse(c.out.dsn).config.db =
                   IF c.in.db = "" THEN "kubernetes" ELSE c.in.db

\* prepareDSN has been applied to a string naming no database and to one
\* naming k3s
C13_Witness ==
    \E c1, c2 \in calls.prepareDSN :
        /\ c1.in = UrlDSN("", "") /\ c1.out.err = nil /\ c1.out.dsn.db = "kubernetes"
        /\ c2.in = UrlDSN(OtherDB, "") /\ c2.out.err = nil /\ c2.out.dsn.db = OtherDB

\* C14: whenever prepareDSN returns without error, the empty connection string
\* included, the target it returns names a non-empty database.
C14_NeverEmptyDatabase ==
    \A c \in calls.prepareDSN :
        c.out.err = nil => Parse(c.out.dsn).config.db # ""

\* C15: dialect.TranslateErr returns server.ErrKeyExists for every
\* *mssql.ServerError and its argument, nil included, for every other value.
C15_TranslateErr ==
    \A c \in calls.TranslateErr :
        c.out = IF c.in \in ServerErrors THEN ErrKeyExists ELSE c.in

\* translated so far: a duplicate, a server error that is not a duplicate,
\* nil and a network error
C15_Witness ==
    /\ [in |-> ErrExists, out |-> ErrKeyExists] \in calls.TranslateErr
    /\ [in |-> ErrDenied, out |-> ErrKeyExists] \in calls.TranslateErr
    /\ [in |-> nil, out |-> nil] \in calls.TranslateErr
    /\ [in |-> ErrNet, out |-> ErrNet] \in calls.TranslateErr

\* C16: a target that prepareDSN produces with a TLS configuration carries
\* that configuration, and differs from the target produced for the same
\* connection string without one.
C16_TLSAttached ==
    \A c \in calls.prepareDSN :
        (c.tls # "nil" /\ c.out.err = nil) =>
            /\ c.out.dsn.tls # ""
            /\ \A c0 \in calls.prepareDSN :
                   (c0.in = c.in /\ c0.tls = "nil") => c0.out # c.out

\* process p takes a step of New
StepOfNew(p) == pc'[p] # pc[p] \/ stmtNo'[p] # stmtNo[p]

\* C17: New run against a target whose database and table kine exist and hold
\* rows leaves the rows as they are in every step of its normalize,
\* ensure-database and schema stages, and returns a backend unless a failure
\* is injected into it.
C17_RowsUntouched ==
    [][ \A p \in Procs :
            StepOfNew(p) =>
                /\ kine' = kine
                /\ (kine # {} /\ pc'[p] = "done" /\ ~faulted'[p]) => ret'[p].backend
      ]_vars

\* the second instance has sent all six schema statements to a database whose
\* table held a row before it started
C17_Witness ==
    /\ ret[1].backend
    /\ kine # {}
    /\ pc[2] = "setup"
    /\ Len(issued[2]) = Len(schema)
    /\ Len(attempts[2]) = 1
    /\ ~faulted[2]

\* C18: setup sends the schema statements in declared order, the table first
\* and then the indexes, each once and never again, all six when it returns
\* nil; at the first statement that fails with an error that is not a server
\* error it returns that error, and nothing is sent after it.
C18_StatementsInOrder ==
    \A p \in Procs :
        /\ Len(issued[p]) <= Len(schema)
        /\ \A i \in 1..Len(issued[p]) :
               /\ issued[p][i] = i
               /\ (schema[issued[p][i]].kind = "table") <=> (i = 1)
        /\ ret[p].backend => Len(issued[p]) = Len(schema)
        /\ (IsErr(lastErr[p]) /\ ~IsServerError(lastErr[p])) =>
               /\ Returned(p)
               /\ ret[p] = [backend |-> FALSE, err |-> lastErr[p]]
               /\ Last(issued[p]) = stmtNo[p]

\* one run stopped at its third statement on a network error, another sent
\* all six
C18_Witness ==
    \E p, q \in Procs :
        /\ lastErr[p] = ErrNet /\ Returned(p) /\ issued[p] = << 1, 2, 3 >>
        /\ ret[q].backend /\ issued[q] = << 1, 2, 3, 4, 5, 6 >>

\* C19: within one call of New every CREATE DATABASE statement that
\* createDBIfNotExist sends, on the first attempt and on the fallback, names
\* the database prepareDSN resolved for that call: the one named in the input
\* connection string, 'kubernetes' when a well-formed input names none.
C19_CreateNamesResolvedDatabase ==
    \A p \in Procs :
        \A k \in 1..Len(attempts[p]) :
            /\ attempts[p][k].name = parsedDSN[p].db
            /\ dsn.form = "url" =>
                   attempts[p][k].name = IF dsn.db = "" THEN "kubernetes" ELSE dsn.db

\* a call on a string naming k3s has sent both creates, the second on a
\* connection without database
C19_Witness ==
    \E p \in Procs :
        /\ dsn = UrlDSN(OtherDB, "")
        /\ Len(attempts[p]) = 2
        /\ attempts[p][1].name = OtherDB /\ attempts[p][1].conn = OtherDB
        /\ attempts[p][2].name = OtherDB /\ attempts[p][2].conn = ""

\* C20: when createDBIfNotExist has returned, every handle it opened, the one
\* on the target's database and the one without database, has been closed.
C20_HandlesClosed ==
    \A p \in Procs :
        ensureErr[p] # "pending" =>
            \A k \in 1..Len(handles[p]) : handles[p][k].closed
====
